---- MODULE Spec2Model ----
(***************************************************************************)
(* The two chat orchestrators of app/backend/approaches:                   *)
(*   ChatReadRetrieveReadApproach        (chatreadretrieveread.py)         *)
(*   ChatReadRetrieveReadVisionApproach  (chatreadretrievereadvision.py)   *)
(* run_until_final_call is modelled as a coroutine: one action per code    *)
(* segment between two awaits.  Every call to a collaborator (model        *)
(* completion, embedding, search, image fetch) and to the prompt builder   *)
(* is appended, with its arguments, to the request's call log.             *)
(*                                                                         *)
(* Python values: a str is [type |-> "str", text |-> <<tokens>>] and "+"   *)
(* is concatenation of the token sequences; a list of content parts is     *)
(* [type |-> "list", parts |-> <<...>>]; None is <<>> and a present        *)
(* optional value x is <<x>>; a dict is a function on the keys it holds.   *)
(* Temperatures are in tenths (0.3 is 3).                                  *)
(***************************************************************************)
EXTENDS Integers, Sequences, FiniteSets, TLC

VARIABLES
    self,       \* the orchestrator instance (fields set by __init__)
    pc,         \* pc[r]: where request r's coroutine is suspended
    args,       \* args[r]: messages, overrides, should_stream of the call
    locals,     \* locals[r]: the local variables of run_until_final_call
    calls,      \* calls[r]: the collaborator calls made so far, in order
    ret         \* ret[r]: what the call returned or raised

vars == <<self, pc, args, locals, calls, ret>>

-----------------------------------------------------------------------------
(* Bounds of the model *)

MaxRequests == 2     \* request slots on one instance
MaxPast == 2         \* messages of history before the last one
MaxResults == 2      \* documents the search collaborator may return

Reqs == 1 .. MaxRequests

-----------------------------------------------------------------------------
(* Python values *)

None == <<>>
Some(x) == <<x>>

Str(t) == [type |-> "str", text |-> t]
PartList(p) == [type |-> "list", parts |-> p]
IsStr(c) == c.type = "str"
StrCat(a, b) == Str(a.text \o b.text)
EmptyDict == [k \in {} |-> None]

\* dict.get(key) and dict.get(key, default)
Get(d, k) == IF k \in DOMAIN d THEN Some(d[k]) ELSE None
GetOr(d, k, default) == IF k \in DOMAIN d THEN d[k] ELSE default

\* "\n".join(strs)
RECURSIVE JoinLines(_)
JoinLines(strs) ==
    IF strs = <<>> THEN Str(<<>>)
    ELSE IF Len(strs) = 1 THEN strs[1]
    ELSE StrCat(StrCat(strs[1], Str(<<"\n">>)), JoinLines(Tail(strs)))

Message(role, content) == [role |-> role, content |-> content]

-----------------------------------------------------------------------------
(* Program constants *)

query_response_token_limit == 100
response_token_limit == 1024
default_temperature == 3
query_temperature == 0
LongTokens == 3000

\* get_token_limit(model) of openai_messages_token_helper
get_token_limit(model) ==
    CASE model = "gpt-35-turbo" -> 4000
      [] model = "gpt-4" -> 8100
      [] model = "gpt-4v" -> 128000

\* tokens a message costs in a prompt
RECURSIVE TextTokens(_)
TextTokens(t) ==
    IF t = <<>> THEN 0
    ELSE (IF Head(t) = "LONG" THEN LongTokens ELSE 1) + TextTokens(Tail(t))

TokenCount(m) ==
    IF IsStr(m.content) THEN TextTokens(m.content.text) ELSE Len(m.content.parts)

\* the past messages build_messages keeps: newest first, while they fit
RECURSIVE KeepNewest(_, _, _)
KeepNewest(past, used, max_tokens) ==
    IF past = <<>> THEN <<>>
    ELSE LET m == past[Len(past)] IN
         IF used + TokenCount(m) > max_tokens THEN <<>>
         ELSE Append(KeepNewest(SubSeq(past, 1, Len(past) - 1),
                                used + TokenCount(m), max_tokens), m)

\* build_messages(model, system_prompt, few_shots, past_messages,
\*                new_user_content, max_tokens): b is the record of arguments
build_messages(b) ==
    LET sys == Message("system", b.system_prompt)
        usr == Message("user", b.new_user_content)
        fixed == TokenCount(sys) + TokenCount(usr)
                 + (IF b.few_shots = <<>> THEN 0
                    ELSE TokenCount(b.few_shots[1]) + TokenCount(b.few_shots[2]))
    IN  <<sys>> \o b.few_shots \o KeepNewest(b.past_messages, fixed, b.max_tokens)
        \o <<usr>>

-----------------------------------------------------------------------------
(* The parts of ChatApproach / Approach the two classes inherit *)

query_prompt_template == Str(<<"query prompt template">>)

query_prompt_few_shots ==
    << Message("user", Str(<<"few-shot question">>)),
       Message("assistant", Str(<<"few-shot query">>)) >>

follow_up_questions_prompt_content == Str(<<"follow-up questions prompt">>)

\* template.format(follow_up_questions_prompt=fu, injected_prompt=inj)
RECURSIVE FormatTokens(_, _, _)
FormatTokens(t, fu, inj) ==
    IF t = <<>> THEN <<>>
    ELSE (CASE Head(t) = "{follow_up_questions_prompt}" -> fu
            [] Head(t) = "{injected_prompt}" -> inj
            [] OTHER -> <<Head(t)>>) \o FormatTokens(Tail(t), fu, inj)

\* the tools schema of the text variant: one function, search_sources
tools == <<"search_sources(search_query)">>

\* get_search_query(chat_completion, user_query): the tool call's argument,
\* else the text of the completion, else the original question
get_search_query(chat_completion, user_query) ==
    CASE chat_completion.kind = "tool_call" -> chat_completion.search_query
      [] chat_completion.kind = "content" -> chat_completion.content
      [] OTHER -> user_query

\* get_system_prompt(override_prompt, follow_up_questions_prompt), given the
\* class's system_message_chat_conversation template
get_system_prompt(template, override_prompt, follow_up_questions_prompt) ==
    IF override_prompt = None
        THEN Str(FormatTokens(template, follow_up_questions_prompt.text, <<>>))
    ELSE IF Head(override_prompt[1].text) = ">>>"
        THEN Str(FormatTokens(template, follow_up_questions_prompt.text,
                              Tail(override_prompt[1].text) \o <<"\n">>))
    ELSE Str(FormatTokens(override_prompt[1].text,
                          follow_up_questions_prompt.text, <<>>))

\* get_citation(sourcepage, use_image_citation)
get_citation(sourcepage, use_image_citation) ==
    IF use_image_citation THEN <<sourcepage, ".png">> ELSE <<sourcepage>>

\* get_sources_content(results, use_semantic_captions, use_image_citation):
\* one "citation: content-or-caption" string per result, in result order
get_sources_content(results, use_semantic_captions, use_image_citation) ==
    [i \in 1 .. Len(results) |->
        Str(get_citation(results[i].sourcepage, use_image_citation) \o <<": ">>
            \o (IF use_semantic_captions /\ results[i].captions # <<>>
                THEN results[i].captions ELSE <<results[i].content>>))]

\* build_filter(overrides, auth_claims): no access restriction is modelled
build_filter(overrides) == None

\* result.serialize_for_results()
serialize_for_results(result) == [document |-> result]

-----------------------------------------------------------------------------
(* The environment: what the callers pass and the collaborators answer *)

DocName(i) == "doc" \o ToString(i) \o ".pdf"

Document(i) ==
    [sourcepage |-> DocName(i),
     content |-> "content of doc" \o ToString(i),
     captions |-> IF i % 2 = 1 THEN <<"caption of doc" \o ToString(i)>> ELSE <<>>]

\* the search collaborator returns 0 .. MaxResults ranked documents
SearchAnswers == { [i \in 1 .. n |-> Document(i)] : n \in 0 .. MaxResults }

\* the completions the query-rewriting call may get back
QueryCompletions ==
    { [kind |-> "tool_call", search_query |-> Str(<<"keywords">>)],
      [kind |-> "content", content |-> Str(<<"plain query">>)],
      [kind |-> "malformed"] }

ImageUrl(result) == "data:image/png;" \o result.sourcepage

PastMessage(i, long) ==
    Message(IF i % 2 = 1 THEN "user" ELSE "assistant",
            Str(IF long /\ i = 1 THEN <<"LONG">> ELSE <<"turn" \o ToString(i)>>))

\* no history, a short one, and one whose first message is long
Histories ==
    { <<>> } \cup { [i \in 1 .. MaxPast |-> PastMessage(i, long)] : long \in BOOLEAN }

LastMessages ==
    { Message("user", Str(<<"question">>)),
      Message("user", PartList(<<[type |-> "text", text |-> Str(<<"question">>)],
                                 [type |-> "image_url", image_url |-> "upload.png"]>>)),
      Message("assistant", Str(<<"earlier answer">>)) }

MessageLists == { Append(h, m) : h \in Histories, m \in LastMessages }

\* an overrides dict holding key k when v is a present value
Opt(k, v) == IF v = None THEN EmptyDict ELSE k :> v[1]

PromptOverrides ==
    { EmptyDict,
      ("prompt_template" :> Str(<<">>>", "be terse">>))
          @@ ("suggest_followup_questions" :> TRUE),
      ("prompt_template" :> Str(<<"custom prompt", "{follow_up_questions_prompt}">>))
          @@ ("semantic_captions" :> TRUE) @@ ("semantic_ranker" :> TRUE) }

RetrievalModes == { None, Some("text"), Some("vectors"), Some("hybrid"), Some("other") }

\* the caller leaves temperature and seed out, or gives both
SamplingOverrides == { EmptyDict, ("temperature" :> 7) @@ ("seed" :> 42) }

CommonOverrides ==
    { Opt("retrieval_mode", m) @@ q @@ p :
        m \in RetrievalModes, q \in SamplingOverrides, p \in PromptOverrides }

\* the options only the vision variant reads
VisionOnlyOverrides ==
    { EmptyDict,
      ("gpt4v_input" :> "textAndImages")
          @@ ("vector_fields" :> <<"embedding", "imageEmbedding">>),
      "gpt4v_input" :> "texts",
      ("gpt4v_input" :> "images")
          @@ ("vector_fields" :> <<"imageEmbedding", "embedding">>) }

VisionOverrides == { o @@ v : o \in CommonOverrides, v \in VisionOnlyOverrides }

-----------------------------------------------------------------------------
(* Construction *)

\* ChatReadRetrieveReadApproach.__init__
TextApproach(chatgpt_model, chatgpt_deployment) ==
    [class |-> "ChatReadRetrieveReadApproach",
     chatgpt_model |-> chatgpt_model,
     chatgpt_deployment |-> chatgpt_deployment,
     chatgpt_token_limit |-> get_token_limit(chatgpt_model)]

\* ChatReadRetrieveReadVisionApproach.__init__
VisionApproach(chatgpt_model, chatgpt_deployment, gpt4v_model, gpt4v_deployment) ==
    [class |-> "ChatReadRetrieveReadVisionApproach",
     chatgpt_model |-> chatgpt_model,
     chatgpt_deployment |-> chatgpt_deployment,
     gpt4v_model |-> gpt4v_model,
     gpt4v_deployment |-> gpt4v_deployment,
     chatgpt_token_limit |-> get_token_limit(gpt4v_model)]

IsVision(s) == s.class = "ChatReadRetrieveReadVisionApproach"

\* the instances explored: an Azure one (deployments named) and a plain one
Instances ==
    { TextApproach("gpt-35-turbo", Some("chat-deployment")),
      TextApproach("gpt-4", None),
      VisionApproach("gpt-35-turbo", Some("chat-deployment"),
                     "gpt-4v", Some("gpt4v-deployment")),
      VisionApproach("gpt-4", None, "gpt-4v", None) }

\* the system_message_chat_conversation property of each class
system_message_chat_conversation(s) ==
    IF IsVision(s)
    THEN <<"assistant of Sklepy Komfort", "use internet sources",
           "{follow_up_questions_prompt}", "{injected_prompt}">>
    ELSE <<"assistant of Sklepy Komfort",
           "{follow_up_questions_prompt}", "{injected_prompt}">>

-----------------------------------------------------------------------------
(* run_until_final_call, piece by piece *)

Truthy(opt) == opt # None /\ opt[1] # FALSE

Call(api, awaited, a) == [api |-> api, awaited |-> awaited, a |-> a]

ThoughtStep(title, description, props) ==
    [title |-> title, description |-> description, props |-> props]

\* the option reads at the top of run_until_final_call
ReadOverrides(s, overrides) ==
    LET common ==
          [seed |-> Get(overrides, "seed"),
           use_text_search |->
               Get(overrides, "retrieval_mode") \in {Some("text"), Some("hybrid"), None},
           use_vector_search |->
               Get(overrides, "retrieval_mode") \in {Some("vectors"), Some("hybrid"), None},
           use_semantic_ranker |-> Truthy(Get(overrides, "semantic_ranker")),
           use_semantic_captions |-> Truthy(Get(overrides, "semantic_captions")),
           top |-> GetOr(overrides, "top", 3),
           filter |-> build_filter(overrides)]
    IN  IF IsVision(s)
        THEN [vector_fields |-> GetOr(overrides, "vector_fields", <<"embedding">>),
              send_text_to_gptvision |->
                  Get(overrides, "gpt4v_input") \in {Some("textAndImages"), Some("texts"), None},
              send_images_to_gptvision |->
                  Get(overrides, "gpt4v_input") \in {Some("textAndImages"), Some("images"), None}]
             @@ common
        ELSE common

\* faulty variant: the isinstance check is missing
RejectsQuery_Never(original_user_query) == FALSE

\* faulty variant: the isinstance check is inverted
RejectsQuery_Inverted(original_user_query) == IsStr(original_user_query)

\* if not isinstance(original_user_query, str): raise ValueError(...)
RejectsQuery(original_user_query) == ~IsStr(original_user_query)

\* the model= argument of a completion request
ModelName(deployment, model) == IF deployment # None THEN deployment[1] ELSE model

\* STEP 1: the arguments of build_messages for the query prompt
QueryBuildArgs(s, l, messages) ==
    [model |-> s.chatgpt_model,
     system_prompt |-> query_prompt_template,
     tools |-> IF IsVision(s) THEN None ELSE Some(tools),
     few_shots |-> query_prompt_few_shots,
     past_messages |-> SubSeq(messages, 1, Len(messages) - 1),
     new_user_content |-> StrCat(Str(<<"Generate search query for: ">>),
                                 l.original_user_query),
     max_tokens |-> s.chatgpt_token_limit - query_response_token_limit]

\* faulty variant: the query call uses the sampling of the final call
QueryCreate_FinalSampling(s, l, query_messages) ==
    Call("chat.completions.create", TRUE,
        [messages |-> query_messages,
         model |-> ModelName(s.chatgpt_deployment, s.chatgpt_model),
         temperature |-> default_temperature,
         max_tokens |-> response_token_limit,
         n |-> 1,
         tools |-> IF IsVision(s) THEN None ELSE Some(tools),
         stream |-> FALSE,
         seed |-> l.seed])

\* STEP 1: the query-rewriting completion request, awaited
QueryCreate(s, l, query_messages) ==
    Call("chat.completions.create", TRUE,
        [messages |-> query_messages,
         model |-> ModelName(s.chatgpt_deployment, s.chatgpt_model),
         temperature |-> query_temperature,
         max_tokens |-> query_response_token_limit,
         n |-> 1,
         tools |-> IF IsVision(s) THEN None ELSE Some(tools),
         stream |-> FALSE,
         seed |-> l.seed])

\* faulty variant: embeddings are computed whatever the retrieval mode
EmbeddingFields_Always(s, l) ==
    IF IsVision(s) THEN l.vector_fields ELSE <<"embedding">>

\* STEP 2: the fields an embedding is computed for, in order
EmbeddingFields(s, l) ==
    IF ~l.use_vector_search THEN <<>>
    ELSE IF IsVision(s) THEN l.vector_fields
    ELSE <<"embedding">>

\* compute_text_embedding / compute_image_embedding for one field
EmbeddingCall(field, query_text) ==
    Call(IF field = "embedding" THEN "compute_text_embedding"
         ELSE "compute_image_embedding", TRUE, [q |-> query_text])

\* the vector an embedding call returns
Embedding(field, query_text) ==
    [kind |-> IF field = "embedding" THEN "text" ELSE "image", of |-> query_text]

\* faulty variant: the text flag is not handed on to the search
SearchArgs_NoText(l) ==
    [top |-> l.top,
     query_text |-> l.query_text,
     filter |-> l.filter,
     vectors |-> l.vectors,
     use_text_search |-> FALSE,
     use_vector_search |-> l.use_vector_search,
     use_semantic_ranker |-> l.use_semantic_ranker,
     use_semantic_captions |-> l.use_semantic_captions]

\* STEP 2: the arguments of self.search (the score thresholds are left out)
SearchArgs(l) ==
    [top |-> l.top,
     query_text |-> l.query_text,
     filter |-> l.filter,
     vectors |-> l.vectors,
     use_text_search |-> l.use_text_search,
     use_vector_search |-> l.use_vector_search,
     use_semantic_ranker |-> l.use_semantic_ranker,
     use_semantic_captions |-> l.use_semantic_captions]

\* {"model": ..., "deployment": ...} if a deployment is named, else {"model": ...}
ModelProps(deployment, model) ==
    IF deployment # None THEN [model |-> model, deployment |-> deployment[1]]
    ELSE [model |-> model]

FollowUpPrompt(overrides) ==
    IF Truthy(Get(overrides, "suggest_followup_questions"))
    THEN follow_up_questions_prompt_content ELSE Str(<<>>)

(* ---- text variant, no-sources path ---- *)

NoSourcesSystemMessage(s, overrides) ==
    get_system_prompt(system_message_chat_conversation(s),
                      Get(overrides, "prompt_template"), FollowUpPrompt(overrides))

NoSourcesBuildArgs(s, a, l, system_message) ==
    [model |-> s.chatgpt_model,
     system_prompt |-> system_message,
     tools |-> None,
     few_shots |-> <<>>,
     past_messages |-> SubSeq(a.messages, 1, Len(a.messages) - 1),
     new_user_content |-> l.original_user_query,
     max_tokens |-> s.chatgpt_token_limit - response_token_limit]

\* faulty variant: the short-circuit path forgets the seed
NoSourcesCreate_NoSeed(s, a, l, messages) ==
    Call("chat.completions.create", FALSE,
        [model |-> ModelName(s.chatgpt_deployment, s.chatgpt_model),
         messages |-> messages,
         temperature |-> GetOr(a.overrides, "temperature", default_temperature),
         max_tokens |-> response_token_limit,
         n |-> 1,
         tools |-> None,
         stream |-> a.should_stream,
         seed |-> None])

\* chat_coroutine = self.openai_client.chat.completions.create(...), not awaited
NoSourcesCreate(s, a, l, messages) ==
    Call("chat.completions.create", FALSE,
        [model |-> ModelName(s.chatgpt_deployment, s.chatgpt_model),
         messages |-> messages,
         temperature |-> GetOr(a.overrides, "temperature", default_temperature),
         max_tokens |-> response_token_limit,
         n |-> 1,
         tools |-> None,
         stream |-> a.should_stream,
         seed |-> l.seed])

\* faulty variant: the short-circuit path reports an empty text list
NoSourcesReturn_TextKey(chat_coroutine) ==
    [kind |-> "dict",
     value |-> [data_points |-> [text |-> <<>>], thoughts |-> <<>>,
                chat_coroutine |-> chat_coroutine]]

\* return {"data_points": {}, "thoughts": [], "chat_coroutine": chat_coroutine}
NoSourcesReturn(chat_coroutine) ==
    [kind |-> "dict",
     value |-> [data_points |-> EmptyDict, thoughts |-> <<>>,
                chat_coroutine |-> chat_coroutine]]

(* ---- text variant, grounded path ---- *)

GroundedSystemMessage(s, overrides) ==
    get_system_prompt(system_message_chat_conversation(s),
                      Get(overrides, "prompt_template"), FollowUpPrompt(overrides))

GroundedUserContent(l, content) ==
    StrCat(StrCat(l.original_user_query, Str(<<"\n\nSources:\n">>)), content)

\* faulty variant: the sources are appended to the system prompt
GroundedBuildArgs_SourcesInSystem(s, a, l, system_message, content) ==
    [model |-> s.chatgpt_model,
     system_prompt |-> StrCat(StrCat(system_message, Str(<<"\n\nSources:\n">>)), content),
     tools |-> None,
     few_shots |-> <<>>,
     past_messages |-> SubSeq(a.messages, 1, Len(a.messages) - 1),
     new_user_content |-> l.original_user_query,
     max_tokens |-> s.chatgpt_token_limit - response_token_limit]

GroundedBuildArgs(s, a, l, system_message, content) ==
    [model |-> s.chatgpt_model,
     system_prompt |-> system_message,
     tools |-> None,
     few_shots |-> <<>>,
     past_messages |-> SubSeq(a.messages, 1, Len(a.messages) - 1),
     new_user_content |-> GroundedUserContent(l, content),
     max_tokens |-> s.chatgpt_token_limit - response_token_limit]

\* faulty variant: the trace reports the question, not the rewritten query
GroundedThoughts_QuestionAsQuery(s, l, results, messages) ==
    << ThoughtStep("Prompt to generate search query", l.query_messages,
                   ModelProps(s.chatgpt_deployment, s.chatgpt_model)),
       ThoughtStep("Search using generated search query", l.original_user_query,
                   [use_semantic_captions |-> l.use_semantic_captions,
                    use_semantic_ranker |-> l.use_semantic_ranker,
                    top |-> l.top,
                    filter |-> l.filter,
                    use_vector_search |-> l.use_vector_search,
                    use_text_search |-> l.use_text_search]),
       ThoughtStep("Search results",
                   [i \in 1 .. Len(results) |-> serialize_for_results(results[i])],
                   None),
       ThoughtStep("Prompt to generate answer", messages,
                   ModelProps(s.chatgpt_deployment, s.chatgpt_model)) >>

GroundedThoughts(s, l, results, messages) ==
    << ThoughtStep("Prompt to generate search query", l.query_messages,
                   ModelProps(s.chatgpt_deployment, s.chatgpt_model)),
       ThoughtStep("Search using generated search query", l.query_text,
                   [use_semantic_captions |-> l.use_semantic_captions,
                    use_semantic_ranker |-> l.use_semantic_ranker,
                    top |-> l.top,
                    filter |-> l.filter,
                    use_vector_search |-> l.use_vector_search,
                    use_text_search |-> l.use_text_search]),
       ThoughtStep("Search results",
                   [i \in 1 .. Len(results) |-> serialize_for_results(results[i])],
                   None),
       ThoughtStep("Prompt to generate answer", messages,
                   ModelProps(s.chatgpt_deployment, s.chatgpt_model)) >>

\* faulty variant: the final completion is awaited before returning
GroundedCreate_Awaited(s, a, l, messages) ==
    Call("chat.completions.create", TRUE,
        [model |-> ModelName(s.chatgpt_deployment, s.chatgpt_model),
         messages |-> messages,
         temperature |-> GetOr(a.overrides, "temperature", default_temperature),
         max_tokens |-> response_token_limit,
         n |-> 1,
         tools |-> None,
         stream |-> a.should_stream,
         seed |-> l.seed])

\* chat_coroutine = self.openai_client.chat.completions.create(...), not awaited
GroundedCreate(s, a, l, messages) ==
    Call("chat.completions.create", FALSE,
        [model |-> ModelName(s.chatgpt_deployment, s.chatgpt_model),
         messages |-> messages,
         temperature |-> GetOr(a.overrides, "temperature", default_temperature),
         max_tokens |-> response_token_limit,
         n |-> 1,
         tools |-> None,
         stream |-> a.should_stream,
         seed |-> l.seed])

\* return (extra_info, chat_coroutine)
TupleReturn(extra_info, chat_coroutine) ==
    [kind |-> "tuple", value |-> <<extra_info, chat_coroutine>>]

\* the text variant from the search results to the return statement
TextAnswer(s, a, l0, c, results) ==
    LET sources_content == get_sources_content(results, l0.use_semantic_captions, FALSE)
        l1 == [results |-> results, sources_content |-> sources_content] @@ l0
    IN  IF sources_content = <<>>
        THEN LET system_message == NoSourcesSystemMessage(s, a.overrides)
                 b == NoSourcesBuildArgs(s, a, l1, system_message)
                 messages == build_messages(b)
                 c1 == c \o << Call("build_messages", TRUE, b),
                               NoSourcesCreate(s, a, l1, messages) >>
             IN  [locals |-> [system_message |-> system_message,
                              messages |-> messages] @@ l1,
                  calls |-> c1,
                  ret |-> NoSourcesReturn([coroutine |-> Len(c1)])]
        ELSE LET content == JoinLines(sources_content)
                 system_message == GroundedSystemMessage(s, a.overrides)
                 b == GroundedBuildArgs(s, a, l1, system_message, content)
                 messages == build_messages(b)
                 extra_info == [data_points |-> [text |-> sources_content],
                                thoughts |-> GroundedThoughts(s, l1, results, messages)]
                 c1 == c \o << Call("build_messages", TRUE, b),
                               GroundedCreate(s, a, l1, messages) >>
             IN  [locals |-> [content |-> content,
                              system_message |-> system_message,
                              messages |-> messages] @@ l1,
                  calls |-> c1,
                  ret |-> TupleReturn(extra_info, [coroutine |-> Len(c1)])]

(* ---- vision variant ---- *)

VisionSystemMessage(s, overrides) ==
    get_system_prompt(system_message_chat_conversation(s),
                      Get(overrides, "prompt_template"), FollowUpPrompt(overrides))

TextPart(text) == [text |-> text, type |-> "text"]
ImagePart(url) == [image_url |-> url, type |-> "image_url"]

\* user_content before the images are fetched
VisionUserContent(l, content) ==
    <<TextPart(l.original_user_query)>>
    \o (IF l.send_text_to_gptvision
        THEN <<TextPart(StrCat(Str(<<"\n\nSources:\n">>), content))>> ELSE <<>>)

\* the vision variant from the search results to the first image fetch
VisionCompose(s, a, l0, results) ==
    LET sources_content == get_sources_content(results, l0.use_semantic_captions, TRUE)
        content == JoinLines(sources_content)
    IN  [results |-> results,
         sources_content |-> sources_content,
         content |-> content,
         system_message |-> VisionSystemMessage(s, a.overrides),
         user_content |-> VisionUserContent(l0, content),
         image_list |-> <<>>,
         fetched |-> 0] @@ l0

\* the results whose image is fetched, in order
ImageResults(l) == IF l.send_images_to_gptvision THEN l.results ELSE <<>>

\* faulty variant: the list is replaced by the latest image
AppendImage_Replace(image_list, url) ==
    IF url # None THEN <<ImagePart(url[1])>> ELSE image_list

\* if url: image_list.append({"image_url": url, "type": "image_url"})
AppendImage(image_list, url) ==
    IF url # None THEN Append(image_list, ImagePart(url[1])) ELSE image_list

\* user_content.extend(image_list), when images are sent
ExtendUserContent(l) ==
    IF l.send_images_to_gptvision THEN l.user_content \o l.image_list
    ELSE l.user_content

VisionBuildArgs(s, a, l, user_content) ==
    [model |-> s.gpt4v_model,
     system_prompt |-> l.system_message,
     tools |-> None,
     few_shots |-> <<>>,
     past_messages |-> SubSeq(a.messages, 1, Len(a.messages) - 1),
     new_user_content |-> PartList(user_content),
     max_tokens |-> s.chatgpt_token_limit - response_token_limit]

VisionDataPoints(l) ==
    [text |-> l.sources_content,
     images |-> [i \in 1 .. Len(l.image_list) |-> l.image_list[i].image_url]]

\* faulty variant: the search step is recorded before the query step
VisionThoughts_Reordered(s, l, messages) ==
    << ThoughtStep("Search using generated search query", l.query_text,
                   [use_semantic_captions |-> l.use_semantic_captions,
                    use_semantic_ranker |-> l.use_semantic_ranker,
                    top |-> l.top,
                    filter |-> l.filter,
                    vector_fields |-> l.vector_fields,
                    use_text_search |-> l.use_text_search]),
       ThoughtStep("Prompt to generate search query", l.query_messages,
                   ModelProps(s.chatgpt_deployment, s.chatgpt_model)),
       ThoughtStep("Search results",
                   [i \in 1 .. Len(l.results) |-> serialize_for_results(l.results[i])],
                   None),
       ThoughtStep("Prompt to generate answer", messages,
                   ModelProps(s.gpt4v_deployment, s.gpt4v_model)) >>

VisionThoughts(s, l, messages) ==
    << ThoughtStep("Prompt to generate search query", l.query_messages,
                   ModelProps(s.chatgpt_deployment, s.chatgpt_model)),
       ThoughtStep("Search using generated search query", l.query_text,
                   [use_semantic_captions |-> l.use_semantic_captions,
                    use_semantic_ranker |-> l.use_semantic_ranker,
                    top |-> l.top,
                    filter |-> l.filter,
                    vector_fields |-> l.vector_fields,
                    use_text_search |-> l.use_text_search]),
       ThoughtStep("Search results",
                   [i \in 1 .. Len(l.results) |-> serialize_for_results(l.results[i])],
                   None),
       ThoughtStep("Prompt to generate answer", messages,
                   ModelProps(s.gpt4v_deployment, s.gpt4v_model)) >>

\* chat_coroutine = self.openai_client.chat.completions.create(...), not awaited
VisionCreate(s, a, l, messages) ==
    Call("chat.completions.create", FALSE,
        [model |-> ModelName(s.gpt4v_deployment, s.gpt4v_model),
         messages |-> messages,
         temperature |-> GetOr(a.overrides, "temperature", default_temperature),
         max_tokens |-> response_token_limit,
         n |-> 1,
         tools |-> None,
         stream |-> a.should_stream,
         seed |-> l.seed])

\* the vision variant from the end of the image loop to the return statement
VisionAnswer(s, a, l, c) ==
    LET user_content == ExtendUserContent(l)
        b == VisionBuildArgs(s, a, l, user_content)
        messages == build_messages(b)
        extra_info == [data_points |-> VisionDataPoints(l),
                       thoughts |-> VisionThoughts(s, l, messages)]
        c1 == c \o << Call("build_messages", TRUE, b),
                      VisionCreate(s, a, l, messages) >>
    IN  [locals |-> [user_content |-> user_content, messages |-> messages] @@ l,
         calls |-> c1,
         ret |-> TupleReturn(extra_info, [coroutine |-> Len(c1)])]

-----------------------------------------------------------------------------
(* The state machine *)

Init ==
    /\ self \in Instances
    /\ pc = [r \in Reqs |-> "idle"]
    /\ args = [r \in Reqs |-> EmptyDict]
    /\ locals = [r \in Reqs |-> EmptyDict]
    /\ calls = [r \in Reqs |-> <<>>]
    /\ ret = [r \in Reqs |-> [kind |-> "none"]]

Finish(r, out) ==
    /\ locals' = [locals EXCEPT ![r] = out.locals]
    /\ calls' = [calls EXCEPT ![r] = out.calls]
    /\ ret' = [ret EXCEPT ![r] = out.ret]
    /\ pc' = [pc EXCEPT ![r] = "returned"]

Raise(r, exc) ==
    /\ ret' = [ret EXCEPT ![r] = [kind |-> "raise", exc |-> exc]]
    /\ pc' = [pc EXCEPT ![r] = "raised"]

\* faulty variant: the index is searched again before every embedding
Retrieve_SearchEachRound(r, l) ==
    LET fields == EmbeddingFields(self, l) IN
    /\ locals' = [locals EXCEPT ![r] = l]
    /\ IF Len(l.vectors) < Len(fields)
       THEN /\ calls' = [calls EXCEPT ![r] =
                  @ \o << Call("search", TRUE, SearchArgs(l)),
                          EmbeddingCall(fields[Len(l.vectors) + 1], l.query_text) >>]
            /\ pc' = [pc EXCEPT ![r] = "await_embedding"]
       ELSE /\ calls' = [calls EXCEPT ![r] = Append(@, Call("search", TRUE, SearchArgs(l)))]
            /\ pc' = [pc EXCEPT ![r] = "await_search"]
    /\ UNCHANGED <<self, args, ret>>

\* faulty variant: the query text is kept in one place shared by all
\* requests in flight, so a later request overwrites it
Retrieve_SharedQueryText(r, l) ==
    LET fields == EmbeddingFields(self, l) IN
    /\ locals' = [q \in Reqs |->
                    IF q = r THEN l
                    ELSE IF "query_text" \in DOMAIN locals[q]
                    THEN [locals[q] EXCEPT !.query_text = l.query_text]
                    ELSE locals[q]]
    /\ IF Len(l.vectors) < Len(fields)
       THEN /\ calls' = [calls EXCEPT ![r] =
                  Append(@, EmbeddingCall(fields[Len(l.vectors) + 1], l.query_text))]
            /\ pc' = [pc EXCEPT ![r] = "await_embedding"]
       ELSE /\ calls' = [calls EXCEPT ![r] = Append(@, Call("search", TRUE, SearchArgs(l)))]
            /\ pc' = [pc EXCEPT ![r] = "await_search"]
    /\ UNCHANGED <<self, args, ret>>

\* STEP 2 from the point where the embeddings in l.vectors are computed:
\* the next embedding call, or the search call
Retrieve(r, l) ==
    LET fields == EmbeddingFields(self, l) IN
    /\ locals' = [locals EXCEPT ![r] = l]
    /\ IF Len(l.vectors) < Len(fields)
       THEN /\ calls' = [calls EXCEPT ![r] =
                  Append(@, EmbeddingCall(fields[Len(l.vectors) + 1], l.query_text))]
            /\ pc' = [pc EXCEPT ![r] = "await_embedding"]
       ELSE /\ calls' = [calls EXCEPT ![r] = Append(@, Call("search", TRUE, SearchArgs(l)))]
            /\ pc' = [pc EXCEPT ![r] = "await_search"]
    /\ UNCHANGED <<self, args, ret>>

\* run_until_final_call(messages, overrides, auth_claims, should_stream), up
\* to the await of the query completion
Enter(r, messages, overrides, should_stream) ==
    LET l == [original_user_query |-> messages[Len(messages)].content]
             @@ ReadOverrides(self, overrides)
    IN  /\ args' = [args EXCEPT ![r] = [messages |-> messages,
                                        overrides |-> overrides,
                                        should_stream |-> should_stream]]
        /\ IF RejectsQuery(l.original_user_query)
           THEN /\ Raise(r, "ValueError")
                /\ locals' = [locals EXCEPT ![r] = l]
                /\ UNCHANGED calls
           ELSE IF ~IsStr(l.original_user_query)
           THEN \* str + a value that is no str raises TypeError
                /\ Raise(r, "TypeError")
                /\ locals' = [locals EXCEPT ![r] = l]
                /\ UNCHANGED calls
           ELSE LET b == QueryBuildArgs(self, l, messages)
                    query_messages == build_messages(b)
                IN  /\ locals' = [locals EXCEPT ![r] =
                           [query_messages |-> query_messages] @@ l]
                    /\ calls' = [calls EXCEPT ![r] =
                           << Call("build_messages", TRUE, b),
                              QueryCreate(self, l, query_messages) >>]
                    /\ pc' = [pc EXCEPT ![r] = "await_query"]
                    /\ UNCHANGED ret
        /\ UNCHANGED self

\* a caller starts a request
Begin(r) ==
    /\ pc[r] = "idle"
    /\ \E messages \in MessageLists,
          overrides \in (IF IsVision(self) THEN VisionOverrides ELSE CommonOverrides),
          should_stream \in BOOLEAN :
        Enter(r, messages, overrides, should_stream)

\* the code from the query completion to the next await
QueryAnswered(r, chat_completion) ==
    Retrieve(r, [query_text |-> get_search_query(chat_completion,
                                                 locals[r].original_user_query),
                 vectors |-> <<>>] @@ locals[r])

\* the query completion arrives
QueryDone(r) ==
    /\ pc[r] = "await_query"
    /\ \E chat_completion \in QueryCompletions : QueryAnswered(r, chat_completion)

\* an embedding arrives
EmbeddingDone(r) ==
    /\ pc[r] = "await_embedding"
    /\ LET l == locals[r]
           field == EmbeddingFields(self, l)[Len(l.vectors) + 1]
       IN  Retrieve(r, [l EXCEPT !.vectors = Append(@, Embedding(field, l.query_text))])

\* the awaited call at the end of the log c gets its answer
Answered(c, answer) == [c EXCEPT ![Len(c)] = [answer |-> answer] @@ @]

\* the next image fetch, or the rest of the vision variant; c is the call log
FetchOrAnswer(r, l, c) ==
    IF l.fetched < Len(ImageResults(l))
    THEN /\ locals' = [locals EXCEPT ![r] = l]
         /\ calls' = [calls EXCEPT ![r] =
               Append(c, Call("fetch_image", TRUE, [result |-> l.results[l.fetched + 1]]))]
         /\ pc' = [pc EXCEPT ![r] = "await_image"]
         /\ UNCHANGED ret
    ELSE Finish(r, VisionAnswer(self, args[r], l, c))

\* the code from the search results to the next await, or to the return
SearchAnswered(r, results) ==
    /\ IF IsVision(self)
       THEN FetchOrAnswer(r, VisionCompose(self, args[r], locals[r], results),
                          Answered(calls[r], results))
       ELSE Finish(r, TextAnswer(self, args[r], locals[r],
                                 Answered(calls[r], results), results))
    /\ UNCHANGED <<self, args>>

\* the search results arrive
SearchDone(r) ==
    /\ pc[r] = "await_search"
    /\ \E results \in SearchAnswers : SearchAnswered(r, results)

\* the code from the answer of an image fetch to the next await, or to the return
ImageAnswered(r, url) ==
    /\ LET l == locals[r] IN
       FetchOrAnswer(r, [l EXCEPT !.image_list = AppendImage(@, url),
                                  !.fetched = @ + 1],
                     Answered(calls[r], url))
    /\ UNCHANGED <<self, args>>

\* an image fetch answers with a URL or with none
ImageDone(r) ==
    /\ pc[r] = "await_image"
    /\ \E url \in {None, Some(ImageUrl(locals[r].results[locals[r].fetched + 1]))} :
         ImageAnswered(r, url)

\* faulty variant: a failed call is issued once more before giving up
UpstreamError_Retry(r) ==
    /\ pc[r] \in {"await_query", "await_embedding", "await_search", "await_image"}
    /\ Raise(r, "UpstreamError")
    /\ calls' = [calls EXCEPT ![r] = Append(@, @[Len(@)])]
    /\ UNCHANGED <<self, args, locals>>

\* an awaited collaborator call fails: the exception leaves run_until_final_call
UpstreamError(r) ==
    /\ pc[r] \in {"await_query", "await_embedding", "await_search", "await_image"}
    /\ Raise(r, "UpstreamError")
    /\ UNCHANGED <<self, args, locals, calls>>

Step(r) ==
    \/ Begin(r)
    \/ QueryDone(r)
    \/ EmbeddingDone(r)
    \/ SearchDone(r)
    \/ ImageDone(r)
    \/ UpstreamError(r)

\* one request at a time on the instance
Next == Step(1)

Spec == Init /\ [][Next]_vars

-----------------------------------------------------------------------------
(* Concurrent requests on one instance.  The event loop runs one coroutine *)
(* at a time and switches between them at the awaits, so a step of the     *)
(* concurrent system is one segment of one request.  The collaborators     *)
(* answer as a function of what they are asked, so that a request run      *)
(* alone gets the same answers.                                            *)

\* the requests the concurrent callers send
ConcurrentMessages ==
    { << Message("user", Str(<<"question">>)) >>,
      Append([i \in 1 .. MaxPast |-> PastMessage(i, FALSE)],
             Message("assistant", Str(<<"earlier answer">>))) }

ConcurrentOverrides(s) ==
    { EmptyDict,
      ("retrieval_mode" :> "text") @@ ("temperature" :> 7) @@ ("seed" :> 42),
      IF IsVision(s)
      THEN ("gpt4v_input" :> "images")
               @@ ("vector_fields" :> <<"imageEmbedding", "embedding">>)
      ELSE ("retrieval_mode" :> "vectors") @@ ("semantic_captions" :> TRUE) }

\* the completion the model gives for a query prompt
CompletionFor(a) ==
    IF a.messages[Len(a.messages)].content
           = StrCat(Str(<<"Generate search query for: ">>), Str(<<"question">>))
    THEN [kind |-> "tool_call", search_query |-> Str(<<"keywords">>)]
    ELSE [kind |-> "content", content |-> Str(<<"plain query">>)]

\* the documents the index gives for a search
ResultsFor(a) ==
    IF a.query_text = Str(<<"keywords">>)
    THEN [i \in 1 .. MaxResults |-> Document(i)]
    ELSE IF a.use_vector_search THEN << Document(1) >>
    ELSE <<>>

\* the image the blob store has for a document, if any
UrlFor(result) ==
    IF result.captions # <<>> THEN Some(ImageUrl(result)) ELSE None

ConcurrentBegin(r) ==
    /\ pc[r] = "idle"
    /\ \E messages \in ConcurrentMessages, overrides \in ConcurrentOverrides(self) :
        Enter(r, messages, overrides, Len(messages) > 1)

ConcurrentQueryDone(r) ==
    /\ pc[r] = "await_query"
    /\ QueryAnswered(r, CompletionFor(calls[r][Len(calls[r])].a))

ConcurrentSearchDone(r) ==
    /\ pc[r] = "await_search"
    /\ SearchAnswered(r, ResultsFor(calls[r][Len(calls[r])].a))

ConcurrentImageDone(r) ==
    /\ pc[r] = "await_image"
    /\ ImageAnswered(r, UrlFor(calls[r][Len(calls[r])].a.result))

\* the event loop resumes one of the requests
ConcurrentNext ==
    \E r \in Reqs :
        \/ ConcurrentBegin(r)
        \/ ConcurrentQueryDone(r)
        \/ EmbeddingDone(r)
        \/ ConcurrentSearchDone(r)
        \/ ConcurrentImageDone(r)

ConcurrentSpec == Init /\ [][ConcurrentNext]_vars

\* the image fetches of a request run alone, then the rest of the vision variant
RECURSIVE AloneFetch(_, _, _, _)
AloneFetch(s, a, l, c) ==
    IF l.fetched < Len(ImageResults(l))
    THEN LET result == l.results[l.fetched + 1]
             url == UrlFor(result)
         IN  AloneFetch(s, a,
                 [l EXCEPT !.image_list = AppendImage(@, url), !.fetched = @ + 1],
                 Append(c, [answer |-> url]
                              @@ Call("fetch_image", TRUE, [result |-> result])))
    ELSE VisionAnswer(s, a, l, c)

\* run_until_final_call run from start to end with nothing else on the
\* instance: the locals, the call log and the returned value
Alone(s, a) ==
    LET l0 == [original_user_query |-> a.messages[Len(a.messages)].content]
              @@ ReadOverrides(s, a.overrides)
        b == QueryBuildArgs(s, l0, a.messages)
        query_messages == build_messages(b)
        l1 == [query_messages |-> query_messages] @@ l0
        create == QueryCreate(s, l1, query_messages)
        query_text == get_search_query(CompletionFor(create.a), l0.original_user_query)
        fields == EmbeddingFields(s, l1)
        l2 == [query_text |-> query_text,
               vectors |-> [i \in 1 .. Len(fields) |-> Embedding(fields[i], query_text)]]
              @@ l1
        search == SearchArgs(l2)
        results == ResultsFor(search)
        c == << Call("build_messages", TRUE, b), create >>
                 \o [i \in 1 .. Len(fields) |-> EmbeddingCall(fields[i], query_text)]
                 \o << [answer |-> results] @@ Call("search", TRUE, search) >>
    IN  IF IsVision(s)
        THEN AloneFetch(s, a, VisionCompose(s, a, l2, results), c)
        ELSE TextAnswer(s, a, l2, c, results)

-----------------------------------------------------------------------------
(* Reading a request's outcome *)

Started(r) == pc[r] # "idle"
Returned(r) == pc[r] = "returned"
IsText == ~IsVision(self)

\* the mapping that carries data_points and thoughts: the first item of a
\* returned pair, or the returned dict itself
Info(r) == IF ret[r].kind = "tuple" THEN ret[r].value[1] ELSE ret[r].value

LastMessage(r) == args[r].messages[Len(args[r].messages)]

\* the last two calls of a request that returned: the final prompt is built,
\* then the final completion request is created
FinalBuild(r) == calls[r][Len(calls[r]) - 1].a
FinalCreate(r) == calls[r][Len(calls[r])]

ApiCalls(r, api) == SelectSeq(calls[r], LAMBDA c : c.api = api)

-----------------------------------------------------------------------------
(* Claims *)

\* C1: in the text variant a request that returns took exactly one of two
\* paths: with an empty sources sequence the result carries data_points == {}
\* and no thought step; otherwise data_points.text is the sources sequence and
\* there are exactly 4 thought steps.  data_points is empty only when the
\* sources sequence is empty.
C1_TextPaths ==
    \A r \in Reqs :
        (IsText /\ Returned(r)) =>
            LET info == Info(r)
                sources == locals[r].sources_content
            IN  /\ sources = get_sources_content(locals[r].results,
                                                 locals[r].use_semantic_captions, FALSE)
                /\ (sources = <<>>) =>
                       (DOMAIN info.data_points = {} /\ Len(info.thoughts) = 0)
                /\ (sources # <<>>) =>
                       /\ DOMAIN info.data_points = {"text"}
                       /\ info.data_points.text = sources
                       /\ Len(info.thoughts) = 4
                /\ (DOMAIN info.data_points = {}) => (sources = <<>>)

C1_Witness ==
    \E r \in Reqs :
        /\ IsText /\ Returned(r)
        /\ locals[r].sources_content = <<>>
        /\ DOMAIN Info(r).data_points = {}

\* C2: the value returned on every successful path is a pair: a metadata
\* record holding exactly data_points and thoughts, and separately the handle
\* of the final completion; the shape is the same with and without sources.
C2_ReturnsPair ==
    \A r \in Reqs :
        Returned(r) =>
            /\ ret[r].kind = "tuple"
            /\ Len(ret[r].value) = 2
            /\ DOMAIN ret[r].value[1] = {"data_points", "thoughts"}
            /\ ret[r].value[2] = [coroutine |-> Len(calls[r])]

\* C3: in the vision variant zero search results do not raise and take the
\* no-sources path: data_points == {}, thoughts == [], and the final user
\* content is the original question with no sources text.
C3_VisionNoSources ==
    \A r \in Reqs :
        (IsVision(self) /\ Started(r) /\ "results" \in DOMAIN locals[r]
            /\ locals[r].results = <<>>) =>
            /\ ret[r].kind # "raise"
            /\ Returned(r)
            /\ DOMAIN Info(r).data_points = {}
            /\ Info(r).thoughts = <<>>
            /\ FinalBuild(r).new_user_content.parts
                   = <<TextPart(locals[r].original_user_query)>>

\* the collaborator calls of a request, in order (the prompt builder is a
\* library function, not a collaborator)
Collab(r) == SelectSeq(calls[r], LAMBDA c : c.api # "build_messages")

\* the stage of the k-th collaborator call: 1 query rewriting, 2 embedding,
\* 3 search, 4 image fetch, 5 final completion request
Stage(cs, k) ==
    CASE cs[k].api = "chat.completions.create" ->
            (IF \E j \in 1 .. (k - 1) : cs[j].api = "chat.completions.create"
             THEN 5 ELSE 1)
      [] cs[k].api \in {"compute_text_embedding", "compute_image_embedding"} -> 2
      [] cs[k].api = "search" -> 3
      [] cs[k].api = "fetch_image" -> 4

\* C4: the collaborator calls of one request happen in stage order (query
\* rewriting, embeddings, search, image fetches, final completion request),
\* each call made after the one before it was answered; the query call, the
\* search call and the final request occur at most once and no earlier stage
\* is called again after a later one.
C4_StageOrder ==
    \A r \in Reqs :
        LET cs == Collab(r) IN
        /\ \A j, k \in 1 .. Len(cs) : j < k => Stage(cs, j) <= Stage(cs, k)
        /\ \A j, k \in 1 .. Len(cs) :
              (Stage(cs, j) = Stage(cs, k) /\ Stage(cs, j) \in {1, 3, 5}) => j = k
        /\ \A k \in 1 .. Len(cs) :
              (Stage(cs, k) \in {2, 3}) => Stage(cs, 1) = 1
        /\ \A k \in 1 .. Len(cs) :
              (Stage(cs, k) \in {4, 5}) => \E j \in 1 .. (k - 1) : Stage(cs, j) = 3
        /\ \A k \in 1 .. (Len(cs) - 1) : cs[k].awaited

C4_Witness ==
    \E r \in Reqs :
        LET cs == Collab(r) IN
        /\ Returned(r)
        /\ \A n \in 1 .. 5 : \E k \in 1 .. Len(cs) : Stage(cs, k) = n
        /\ Len(ApiCalls(r, "compute_image_embedding")) = 1
        /\ Len(ApiCalls(r, "fetch_image")) = MaxResults

\* C5: if the content of the last message is not a plain string the call
\* fails with ValueError, and at that moment no model, embedding, search or
\* image-fetch call has been made and nothing is returned.
C5_NonStringRejected ==
    \A r \in Reqs :
        (Started(r) /\ ~IsStr(LastMessage(r).content)) =>
            /\ pc[r] = "raised"
            /\ ret[r] = [kind |-> "raise", exc |-> "ValueError"]
            /\ Collab(r) = <<>>

C5_Witness ==
    \E r \in Reqs :
        /\ Started(r)
        /\ LastMessage(r).content.type = "list"
        /\ ret[r] = [kind |-> "raise", exc |-> "ValueError"]

\* C6 as stated: a history whose last entry is not a user message is rejected
\* with the input error instead of running the pipeline.
C6_NonUserRejected ==
    \A r \in Reqs :
        (Started(r) /\ LastMessage(r).role # "user") =>
            /\ pc[r] = "raised"
            /\ ret[r] = [kind |-> "raise", exc |-> "ValueError"]

\* C6 amended: the input error is raised exactly when the content of the last
\* message is not a plain string; the role of the last message is not looked
\* at, and with string content the pipeline runs (the query call is made).
C6_StringContentDecides ==
    \A r \in Reqs :
        Started(r) =>
            /\ (ret[r] = [kind |-> "raise", exc |-> "ValueError"])
                   <=> ~IsStr(LastMessage(r).content)
            /\ IsStr(LastMessage(r).content) =>
                   /\ Len(Collab(r)) >= 1
                   /\ Collab(r)[1].api = "chat.completions.create"

C6_Witness ==
    \E r \in Reqs :
        /\ Returned(r)
        /\ LastMessage(r).role = "assistant"
        /\ IsStr(LastMessage(r).content)

\* the handle of the final completion held by the returned value
ReturnedHandle(r) ==
    IF ret[r].kind = "tuple" THEN ret[r].value[2] ELSE ret[r].value.chat_coroutine

\* C7: when run_until_final_call returns, the final completion request has
\* been created with the caller's streaming flag and has not been awaited, on
\* every path and for both values of should_stream; the only completion the
\* orchestrator ever awaits is the query-rewriting call.
C7_FinalNotAwaited ==
    \A r \in Reqs :
        /\ Returned(r) =>
              /\ FinalCreate(r).api = "chat.completions.create"
              /\ ~FinalCreate(r).awaited
              /\ FinalCreate(r).a.stream = args[r].should_stream
              /\ ReturnedHandle(r) = [coroutine |-> Len(calls[r])]
        /\ \A k \in 1 .. Len(calls[r]) :
              (calls[r][k].api = "chat.completions.create" /\ calls[r][k].awaited) =>
                  /\ k = 2
                  /\ calls[r][k].a.messages = locals[r].query_messages

C7_Witness ==
    \E r \in Reqs :
        /\ Returned(r)
        /\ args[r].should_stream
        /\ locals[r].results # <<>>
        /\ ~FinalCreate(r).awaited

\* C8: a non-empty thought trace has exactly four steps, in the order query
\* generation, search invocation, result listing, answer generation, and it
\* exists only once the query call, the search call and the final prompt of
\* the request have been made.
C8_ThoughtOrder ==
    \A r \in Reqs :
        (ret[r].kind \in {"tuple", "dict"} /\ Info(r).thoughts # <<>>) =>
            LET th == Info(r).thoughts IN
            /\ [i \in 1 .. Len(th) |-> th[i].title]
                   = << "Prompt to generate search query",
                        "Search using generated search query",
                        "Search results",
                        "Prompt to generate answer" >>
            /\ Len(ApiCalls(r, "search")) = 1
            /\ Len(ApiCalls(r, "build_messages")) = 2
            /\ Len(ApiCalls(r, "chat.completions.create")) = 2
            /\ "results" \in DOMAIN locals[r]

C8_Witness ==
    \E r \in Reqs :
        /\ Returned(r)
        /\ Len(Info(r).thoughts) = 4
        /\ Info(r).thoughts[3].description # <<>>

\* the tokens of the sources block: the sources, one per line
RECURSIVE SourceLines(_)
SourceLines(sources) ==
    IF Len(sources) = 0 THEN <<>>
    ELSE IF Len(sources) = 1 THEN sources[1].text
    ELSE SourceLines(SubSeq(sources, 1, Len(sources) - 1))
         \o <<"\n">> \o sources[Len(sources)].text

TokensOf(text) == { text[i] : i \in 1 .. Len(text) }

\* C9: in the text variant the sources go only into the final user message:
\* on the grounded path the user content is the question, "\n\nSources:\n"
\* and the newline-joined sources, and the system prompt is the one the
\* no-sources path builds from the same overrides, holding no source text;
\* on the no-sources path the user content is the raw question.
C9_SourcesInUserMessage ==
    \A r \in Reqs :
        (IsText /\ Returned(r)) =>
            LET b == FinalBuild(r)
                question == LastMessage(r).content
                sources == locals[r].sources_content
                messages == FinalCreate(r).a.messages
            IN  /\ (sources # <<>>) =>
                      /\ b.new_user_content.text =
                             question.text \o <<"\n\nSources:\n">> \o SourceLines(sources)
                      /\ b.system_prompt = NoSourcesSystemMessage(self, args[r].overrides)
                      /\ \A i \in 1 .. Len(sources) :
                             TokensOf(b.system_prompt.text)
                                 \cap TokensOf(sources[i].text) = {}
                /\ (sources = <<>>) => b.new_user_content = question
                /\ messages[1] = Message("system", b.system_prompt)
                /\ messages[Len(messages)] = Message("user", b.new_user_content)

C9_Witness ==
    \E r \in Reqs :
        /\ IsText /\ Returned(r)
        /\ Len(locals[r].sources_content) = MaxResults
        /\ "prompt_template" \in DOMAIN args[r].overrides

\* C10: on every path of both variants the final completion request is
\* created with temperature = the caller's override, else 0.3; max_tokens =
\* 1024; n = 1; seed = the caller's seed or none; stream = should_stream; and
\* its prompt is built with a budget of the model's token limit minus 1024.
C10_FinalSampling ==
    \A r \in Reqs :
        Returned(r) =>
            LET f == FinalCreate(r).a
                b == FinalBuild(r)
                o == args[r].overrides
            IN  /\ f.temperature =
                       (IF "temperature" \in DOMAIN o THEN o.temperature ELSE 3)
                /\ f.max_tokens = 1024
                /\ f.n = 1
                /\ f.seed = (IF "seed" \in DOMAIN o THEN <<o.seed>> ELSE <<>>)
                /\ f.stream = args[r].should_stream
                /\ b.max_tokens = get_token_limit(b.model) - 1024
                /\ b.model = (IF IsVision(self) THEN self.gpt4v_model
                              ELSE self.chatgpt_model)
                /\ f.messages = build_messages(b)

C10_Witness ==
    \E r \in Reqs :
        /\ Returned(r)
        /\ IsVision(self)
        /\ "temperature" \in DOMAIN args[r].overrides
        /\ args[r].should_stream
        /\ FinalCreate(r).a.temperature = 7

\* the first two calls of a request that passed the input check: the query
\* prompt is built, then the query-rewriting completion is requested
QueryBuild(r) == calls[r][1].a
QueryCall(r) == calls[r][2]

\* C11: the query-rewriting call is made with temperature 0, max_tokens 100,
\* n = 1 and without streaming, whatever temperature and should_stream the
\* caller gave; its last message is the user message "Generate search query
\* for: " + the original question, and the history given to its prompt is
\* every message except the last.
C11_QueryCall ==
    \A r \in Reqs :
        (Len(calls[r]) >= 2) =>
            LET q == QueryCall(r).a
                b == QueryBuild(r)
                m == args[r].messages
            IN  /\ calls[r][1].api = "build_messages"
                /\ QueryCall(r).api = "chat.completions.create"
                /\ q.temperature = 0
                /\ q.max_tokens = 100
                /\ q.n = 1
                /\ q.stream = FALSE
                /\ q.messages = build_messages(b)
                /\ q.messages[Len(q.messages)] =
                       Message("user", Str(<<"Generate search query for: ">>
                                           \o m[Len(m)].content.text))
                /\ b.past_messages = [i \in 1 .. (Len(m) - 1) |-> m[i]]

C11_Witness ==
    \E r \in Reqs :
        /\ Len(calls[r]) >= 2
        /\ "temperature" \in DOMAIN args[r].overrides
        /\ args[r].overrides.temperature # 0
        /\ args[r].should_stream
        /\ Len(QueryBuild(r).past_messages) = MaxPast

\* the image fetches of a request and the URLs they resolved, in call order
Fetches(r) == ApiCalls(r, "fetch_image")
ResolvedUrls(r) ==
    LET done == SelectSeq(Fetches(r),
                          LAMBDA c : "answer" \in DOMAIN c /\ c.answer # None)
    IN  [i \in 1 .. Len(done) |-> done[i].answer[1]]

ImagesEnabled(r) ==
    ("gpt4v_input" \notin DOMAIN args[r].overrides)
        \/ args[r].overrides.gpt4v_input \in {"textAndImages", "images"}

\* C12: in the vision variant with image sending enabled the image fetch is
\* called once per search result, in result order; a fetch that gives no URL
\* is skipped and the request still returns; the final user content holds the
\* question text part and exactly one image part per resolved image, and
\* data_points.images is the list of the resolved URLs in the same order
\* (gpt4v_input = "images": 1 text part and one image part per resolved URL).
C12_ImagesPerResult ==
    \A r \in Reqs :
        (IsVision(self) /\ Started(r) /\ IsStr(LastMessage(r).content)
            /\ ImagesEnabled(r)) =>
            /\ \A i \in 1 .. Len(Fetches(r)) :
                  /\ i <= Len(locals[r].results)
                  /\ Fetches(r)[i].a.result = locals[r].results[i]
            /\ Returned(r) =>
                  LET parts == FinalBuild(r).new_user_content.parts
                      images == SelectSeq(parts, LAMBDA p : p.type = "image_url")
                      texts == SelectSeq(parts, LAMBDA p : p.type = "text")
                      urls == ResolvedUrls(r)
                  IN  /\ Len(Fetches(r)) = Len(locals[r].results)
                      /\ parts[1] = [text |-> LastMessage(r).content, type |-> "text"]
                      /\ images = [i \in 1 .. Len(urls) |->
                                      [image_url |-> urls[i], type |-> "image_url"]]
                      /\ parts = texts \o images
                      /\ Info(r).data_points.images = urls
                      /\ (Get(args[r].overrides, "gpt4v_input") = <<"images">>)
                             => Len(texts) = 1

C12_Witness ==
    \E r \in Reqs :
        /\ IsVision(self) /\ Returned(r)
        /\ "gpt4v_input" \in DOMAIN args[r].overrides
        /\ args[r].overrides.gpt4v_input = "images"
        /\ Len(Fetches(r)) = MaxResults
        /\ Len(ResolvedUrls(r)) = MaxResults - 1
        /\ Fetches(r)[1].answer = None

\* the request ended with the exception of a failed collaborator call
Failed(r) == ret[r].kind = "raise" /\ ret[r].exc = "UpstreamError"

\* the call that was awaited when the request ended
FailedCall(r) == calls[r][Len(calls[r])]

\* C14: when the query-rewriting call, an embedding call or the search call
\* fails, the failed call is the last collaborator call of the request: it is
\* not issued again, no call of a later stage follows (no search after a
\* failed rewrite or embedding, no final completion request after a failed
\* search), and the request ends with the exception and no result value.
C14_UpstreamErrorPropagates ==
    \A r \in Reqs :
        (Failed(r) /\ FailedCall(r).api # "fetch_image") =>
            LET cs == Collab(r)
                k == Len(cs)
            IN  /\ pc[r] = "raised"
                /\ DOMAIN ret[r] = {"kind", "exc"}
                /\ cs[k] = FailedCall(r)
                /\ "answer" \notin DOMAIN cs[k]
                /\ Stage(cs, k) \in {1, 2, 3}
                /\ \A j \in 1 .. (k - 1) :
                       /\ cs[j] # cs[k]
                       /\ Stage(cs, j) <= Stage(cs, k)
                /\ Len(ApiCalls(r, "chat.completions.create")) = 1
                /\ Len(ApiCalls(r, "search")) = (IF Stage(cs, k) = 3 THEN 1 ELSE 0)
                /\ Len(ApiCalls(r, "fetch_image")) = 0

C14_Witness ==
    \E r \in Reqs :
        /\ Failed(r)
        /\ FailedCall(r).api = "search"
        /\ Len(Collab(r)) = 4

\* the search call of a request that reached the search stage
Searched(r) == Len(ApiCalls(r, "search")) > 0
SearchCall(r) == ApiCalls(r, "search")[1]

\* the embedding calls of a request, in order
EmbeddingCalls(r) ==
    SelectSeq(calls[r], LAMBDA c : c.api \in {"compute_text_embedding",
                                              "compute_image_embedding"})

\* the fields the request asks vectors for
RequestedFields(r) ==
    IF IsVision(self) THEN GetOr(args[r].overrides, "vector_fields", <<"embedding">>)
    ELSE <<"embedding">>

\* C15: retrieval_mode decides the flags of the search call ("text": text
\* on, vector off; "vectors": text off, vector on; "hybrid" or absent: both
\* on).  With vector matching on, the embedding calls before the search are
\* one text embedding in the text variant and one per vector_fields entry in
\* order in the vision variant (text embedding for "embedding", image
\* embedding otherwise), and the search receives their vectors; with vector
\* matching off there is no embedding call and the vector list is empty.
C15_RetrievalMode ==
    \A r \in Reqs :
        Searched(r) =>
            LET mode == Get(args[r].overrides, "retrieval_mode")
                a == SearchCall(r).a
                es == EmbeddingCalls(r)
                fields == RequestedFields(r)
            IN  /\ (mode = Some("text")) =>
                       (a.use_text_search /\ ~a.use_vector_search)
                /\ (mode = Some("vectors")) =>
                       (~a.use_text_search /\ a.use_vector_search)
                /\ (mode \in {Some("hybrid"), None}) =>
                       (a.use_text_search /\ a.use_vector_search)
                /\ a.use_vector_search =>
                       /\ Len(es) = Len(fields)
                       /\ Len(a.vectors) = Len(fields)
                       /\ \A i \in 1 .. Len(fields) :
                              /\ es[i].api = (IF fields[i] = "embedding"
                                              THEN "compute_text_embedding"
                                              ELSE "compute_image_embedding")
                              /\ es[i].a.q = a.query_text
                              /\ a.vectors[i] = Embedding(fields[i], a.query_text)
                /\ ~a.use_vector_search =>
                       (es = <<>> /\ a.vectors = <<>>)

C15_Witness ==
    \E r \in Reqs :
        /\ IsVision(self) /\ Searched(r)
        /\ Get(args[r].overrides, "retrieval_mode") = Some("vectors")
        /\ Len(EmbeddingCalls(r)) = 2
        /\ EmbeddingCalls(r)[1].api = "compute_image_embedding"

\* a search stage reached with vector matching off under retrieval_mode "text"
C15_WitnessTextOnly ==
    \E r \in Reqs :
        /\ Searched(r)
        /\ Get(args[r].overrides, "retrieval_mode") = Some("text")
        /\ SearchCall(r).a.vectors = <<>>

\* C16: in both variants the budget handed to the prompt builder for the
\* query prompt is the context limit of the model the query-rewriting call
\* invokes (chatgpt_model) minus the 100 tokens reserved for the response.
C16_QueryBudget ==
    \A r \in Reqs :
        Len(calls[r]) >= 2 =>
            /\ QueryBuild(r).model = self.chatgpt_model
            /\ QueryBuild(r).max_tokens
                   = get_token_limit(self.chatgpt_model) - query_response_token_limit

\* the retrieval_mode values the option reads recognise; None is the absent option
RecognizedModes == {Some("text"), Some("vectors"), Some("hybrid"), None}

\* C17 as stated: whatever the value of retrieval_mode, every search call has
\* text matching or vector matching switched on.
C17_NeverBothOff ==
    \A r \in Reqs :
        Searched(r) =>
            (SearchCall(r).a.use_text_search \/ SearchCall(r).a.use_vector_search)

\* C17 as the code has it: the search call has text matching or vector
\* matching switched on exactly when retrieval_mode is "text", "vectors",
\* "hybrid" or absent; any other value switches both off and the search is
\* still invoked, with an empty vector list.
C17_RecognizedModeSearches ==
    \A r \in Reqs :
        Searched(r) =>
            LET a == SearchCall(r).a IN
            /\ (a.use_text_search \/ a.use_vector_search)
                   <=> (Get(args[r].overrides, "retrieval_mode") \in RecognizedModes)
            /\ (~a.use_text_search /\ ~a.use_vector_search) => a.vectors = <<>>

C17_Witness ==
    \E r \in Reqs :
        /\ Searched(r)
        /\ Get(args[r].overrides, "retrieval_mode") = Some("other")
        /\ ~SearchCall(r).a.use_text_search
        /\ ~SearchCall(r).a.use_vector_search
        /\ Returned(r)

\* C18: a returned thought trace that is not empty reports what was sent:
\* step 1 holds the message sequence of the query-rewriting call, step 2 the
\* query text of the search call, step 3 the results that search call
\* returned, in order, and step 4 the message sequence of the final
\* completion request.
C18_TraceReportsCalls ==
    \A r \in Reqs :
        (Returned(r) /\ Info(r).thoughts # <<>>) =>
            LET t == Info(r).thoughts
                found == SearchCall(r).answer
            IN  /\ Len(t) = 4
                /\ t[1].description = QueryCall(r).a.messages
                /\ t[2].description = SearchCall(r).a.query_text
                /\ Len(t[3].description) = Len(found)
                /\ \A i \in 1 .. Len(found) :
                       t[3].description[i] = serialize_for_results(found[i])
                /\ t[4].description = FinalCreate(r).a.messages

C18_Witness ==
    \E r \in Reqs :
        /\ Returned(r)
        /\ Len(Info(r).thoughts) = 4
        /\ Len(SearchCall(r).answer) = 2
        /\ SearchCall(r).a.query_text # locals[r].original_user_query

\* a request's returned value (data_points, thoughts and the handle), its
\* final prompt and final call, and its whole call log are those of the same
\* request run alone
SameAsAlone(r) ==
    LET alone == Alone(self, args[r]) IN
    /\ ret[r] = alone.ret
    /\ FinalBuild(r) = alone.calls[Len(alone.calls) - 1].a
    /\ FinalCreate(r).a = alone.calls[Len(alone.calls)].a
    /\ calls[r] = alone.calls

\* C13: however the segments of concurrent requests on one instance are
\* interleaved, no step writes a field of the instance, and every request
\* that returns has the data_points, the thoughts and the final-call
\* arguments it has when run alone.
C13_Independent ==
    /\ [][self' = self]_vars
    /\ [](\A r \in Reqs : Returned(r) => SameAsAlone(r))

\* one request has returned its trace while another, with other arguments, is
\* waiting for its search
C13_Witness ==
    \E r, q \in Reqs :
        /\ r # q
        /\ Returned(r) /\ Len(Info(r).thoughts) = 4
        /\ pc[q] = "await_search"
        /\ args[q] # args[r]
        /\ locals[q].query_text # locals[r].query_text

====
